---- MODULE Spec2Model ----
(***************************************************************************)
(* redux-midi: the reducer, the memoised access request, inputMiddleware   *)
(* and outputMiddleware of setup(), run against a host (Web MIDI) that     *)
(* connects and disconnects ports, fires statechange notifications and     *)
(* delivers raw messages, and an application that dispatches actions.      *)
(*                                                                         *)
(* One TLA+ step is one host task, one application dispatch or one         *)
(* microtask (promise reaction).  Host tasks run only when no microtask is *)
(* queued; application code may dispatch between two microtasks.           *)
(***************************************************************************)
EXTENDS Integers, Sequences, FiniteSets, TLC

\* ---------------------------------------------------------------- bounds
\* SEND_MIDI_MESSAGE actions the application dispatches in one run
MaxSends == 2
\* statechange notifications the host may have queued and not yet delivered
MaxPending == 2
\* onChange calls after which the watched store is dispatched to no more
MaxCalls == 3

\* ------------------------------------------------------------ the domain
InputIds == {"in1", "in2"}
OutputIds == {"out1", "out2"}
DeviceIds == InputIds \cup OutputIds

\* the payloads the application dispatches with SET_LISTENING_DEVICES:
\* ids of inputs in both orders, a repeated id, and the id of an output
ListenPayloads ==
  { <<>>, <<"in1">>, <<"in2">>, <<"in1", "in2">>, <<"in2", "in1">>,
    <<"in1", "in1">>, <<"out1">> }

\* an absent (undefined) field of a raw event
Undefined == -1

\* the raw message events of the host: {receivedTime, timeStamp, timestamp, data}
RawEvents ==
  { [receivedTime |-> Undefined, timeStamp |-> Undefined, timestamp |-> 7, data |-> <<144, 60, 127>>],
    [receivedTime |-> Undefined, timeStamp |-> 8, timestamp |-> 7, data |-> <<128, 60, 0>>],
    [receivedTime |-> 9, timeStamp |-> 8, timestamp |-> Undefined, data |-> <<144, 60, 127>>] }

\* the {data, timestamp} of the SEND_MIDI_MESSAGE envelopes the application sends
SendData == <<144, 60, 127>>
SendTimestamp == 5

\* the action types of the duck
RECEIVE_DEVICE_LIST == "redux-midi/midi/RECEIVE_DEVICE_LIST"
SET_LISTENING_DEVICES == "redux-midi/midi/SET_LISTENING_DEVICES"
RECEIVE_MIDI_MESSAGE == "redux-midi/midi/RECEIVE_MIDI_MESSAGE"
SEND_MIDI_MESSAGE == "redux-midi/midi/SEND_MIDI_MESSAGE"
\* an action type of the application that the duck does not define
OTHER_ACTION == "app/OTHER"

receiveDeviceList(devices) == [type |-> RECEIVE_DEVICE_LIST, payload |-> devices]
setListeningDevices(ids) == [type |-> SET_LISTENING_DEVICES, payload |-> ids]
receiveMidiMessage(message) == [type |-> RECEIVE_MIDI_MESSAGE, payload |-> message]
sendMidiMessage(message) == [type |-> SEND_MIDI_MESSAGE, payload |-> message]

initialState == [devices |-> <<>>, listeningDevices |-> <<>>]

\* ---------------------------------------------------------------- helpers
ToSet(s) == {s[i] : i \in 1..Len(s)}

\* lexicographic order of the ids, as JavaScript compares the strings
Rank(id) ==
  CASE id = "in1" -> 1
    [] id = "in2" -> 2
    [] id = "out1" -> 3
    [] id = "out2" -> 4

\* the descriptor the snapshot copies out of a port
Descriptor(id) ==
  [id |-> id, type |-> IF id \in InputIds THEN "input" ELSE "output"]

\* lodash.sortby(list, 'id'): a stable ascending sort on the id
RECURSIVE Insert(_, _)
Insert(sorted, d) ==
  IF sorted = <<>> THEN <<d>>
  ELSE IF Rank(d.id) < Rank(Head(sorted).id) THEN <<d>> \o sorted
  ELSE <<Head(sorted)>> \o Insert(Tail(sorted), d)

RECURSIVE sortBy(_)
sortBy(list) ==
  IF list = <<>> THEN <<>>
  ELSE Insert(sortBy(SubSeq(list, 1, Len(list) - 1)), list[Len(list)])

RECURSIVE MapDescriptor(_)
MapDescriptor(ids) ==
  IF ids = <<>> THEN <<>> ELSE <<Descriptor(Head(ids))>> \o MapDescriptor(Tail(ids))

\* (mutant) the lists are compared by identity: a fresh snapshot never equals
deepEqualIdentity(a, b) == FALSE

\* deep-equal of two device lists: equality by value
deepEqual(a, b) == a = b


\* ------------------------------------------------------------------ state
VARIABLES
  created,              \* the store exists (applyMiddleware has built the chain)
  hasInput,             \* inputMiddleware is in the chain
  hasOutput,            \* outputMiddleware is in the chain
  midiAccess,           \* setup's `midiAccess`: "undefined", "promise" or "access"
  request,              \* the promise of requestMIDIAccess: "none", "pending", "fulfilled", "rejected"
  requestCount,         \* invocations of the underlying requestMIDIAccess
  reactions,            \* .then reactions registered on the pending promise, in order
  microtasks,           \* promise jobs ready to run, in order
  inputs,               \* midiAccess.inputs: the ids of the connected inputs, in Map order
  outputs,              \* midiAccess.outputs, likewise
  onmidimessage,        \* per input port: "null", or the `device` its callback closes over
  onstatechange,        \* midiAccess.onstatechange is set
  pendingStateChanges,  \* statechange notifications queued by the host
  state,                \* getState()[stateKey]
  sent,                 \* the send(data, timestamp) calls made on the outputs, in order
  sendSeq,              \* SEND_MIDI_MESSAGE actions dispatched so far
  lastDispatch,         \* what the dispatch made by the last step did (NoDispatch if none)
  tick,                 \* flips at every step
  armed,                \* inputs listened to by a dispatch made with the handle resolved
  forged,               \* the application has dispatched RECEIVE_DEVICE_LIST itself
  factory,              \* the call of setup: its argument and what came of it
  selection,            \* select(getState()) of a store watched with observeStore
  observer              \* observeStore's closure: subscribed, currentState, the
                        \* onChange calls made, and what the last onChange dispatched

vars ==
  << created, hasInput, hasOutput, midiAccess, request, requestCount, reactions,
     microtasks, inputs, outputs, onmidimessage, onstatechange,
     pendingStateChanges, state, sent, sendSeq, lastDispatch, tick, armed, forged,
     factory, selection, observer >>

NoAction == [type |-> "none", payload |-> <<>>]

NoDispatch ==
  [action |-> NoAction, origin |-> "none", forwards |-> 0, raised |-> FALSE,
   returned |-> FALSE, writes |-> 0, sends |-> 0, repeat |-> FALSE]

\* ---------------------------------------------------------------- reducer
\* (mutant) SET_LISTENING_DEVICES merges the payload into the stored list
reducerMerging(st, action) ==
  CASE action.type = RECEIVE_DEVICE_LIST -> [st EXCEPT !.devices = action.payload]
    [] action.type = SET_LISTENING_DEVICES ->
         [st EXCEPT !.listeningDevices = st.listeningDevices \o action.payload]
    [] OTHER -> st

reducer(st, action) ==
  CASE action.type = RECEIVE_DEVICE_LIST -> [st EXCEPT !.devices = action.payload]
    [] action.type = SET_LISTENING_DEVICES -> [st EXCEPT !.listeningDevices = action.payload]
    [] OTHER -> st

\* state.devices !== prevState.devices: the reducer stores the payload array
\* itself, so the field changes identity unless the payload is the stored array
devicesChanged(action, sameRef) ==
  action.type = RECEIVE_DEVICE_LIST /\ ~sameRef

listeningDevicesChanged(action, sameRef) ==
  action.type = SET_LISTENING_DEVICES /\ ~sameRef

\* -------------------------------------------------- requestMIDIAccessOnce
\* (mutant) no memo test: every call issues a request
alreadyRequestedNever(m) == FALSE

\* `if (midiAccess) return Promise.resolve(midiAccess)`
alreadyRequested(m) == m # "undefined"

\* ---------------------------------------------------------- inputMiddleware
Ids(devices) == {devices[i].id : i \in 1..Len(devices)}

toUnlisten(prevState, nextState, changed) ==
  IF changed
  THEN SelectSeq(prevState.listeningDevices,
                 LAMBDA dev : dev \notin ToSet(nextState.listeningDevices))
  ELSE <<>>

\* (mutant) every id of the new list is listened to again
toListenAll(prevState, nextState, changed) ==
  IF changed THEN nextState.listeningDevices ELSE <<>>

toListenNew(prevState, nextState, changed) ==
  IF changed
  THEN SelectSeq(nextState.listeningDevices,
                 LAMBDA dev : dev \notin ToSet(prevState.listeningDevices))
  ELSE <<>>

\* (mutant) no device diff: a listened device that appears is not listened to
toListenAppearedNever(prevState, nextState, changed, ins) == <<>>

toListenAppeared(prevState, nextState, changed, ins) ==
  IF changed
  THEN SelectSeq(nextState.listeningDevices,
                 LAMBDA device : /\ device \in ToSet(ins)
                                 /\ device \in Ids(nextState.devices)
                                 /\ device \notin Ids(prevState.devices))
  ELSE <<>>

\* the handler evaluates `midiAccess.inputs`, which raises a TypeError while
\* midiAccess is still the promise
touchesInputs(nextState, devChanged, unlisten, listenNew) ==
  \/ devChanged /\ nextState.listeningDevices # <<>>
  \/ unlisten # <<>>
  \/ listenNew # <<>>

RECURSIVE clearCallbacks(_, _, _)
clearCallbacks(cb, devs, ins) ==
  IF devs = <<>> THEN cb
  ELSE clearCallbacks(
         IF Head(devs) \in ToSet(ins) THEN [cb EXCEPT ![Head(devs)] = "null"] ELSE cb,
         Tail(devs), ins)

\* (mutant) the callbacks close over the loop's last device
RECURSIVE installCallbacksLastDevice(_, _, _)
installCallbacksLastDevice(cb, devs, ins) ==
  IF devs = <<>> THEN cb
  ELSE installCallbacksLastDevice(
         IF Head(devs) \in ToSet(ins) THEN [cb EXCEPT ![Head(devs)] = devs[Len(devs)]] ELSE cb,
         Tail(devs), ins)

RECURSIVE installCallbacks(_, _, _)
installCallbacks(cb, devs, ins) ==
  IF devs = <<>> THEN cb
  ELSE installCallbacks(
         IF Head(devs) \in ToSet(ins) THEN [cb EXCEPT ![Head(devs)] = Head(devs)] ELSE cb,
         Tail(devs), ins)

\* assignments to an onmidimessage property made by the two loops
callbackWrites(devs, ins) ==
  Len(SelectSeq(devs, LAMBDA d : d \in ToSet(ins)))

\* (mutant) the legacy field is preferred: [timestamp, timeStamp, receivedTime]
normalizeTimestampLegacyFirst(ev) ==
  LET defined == SelectSeq(<<ev.timestamp, ev.timeStamp, ev.receivedTime>>,
                           LAMBDA x : x # Undefined)
  IN IF defined = <<>> THEN Undefined ELSE defined[1]

\* `[receivedTime, timeStamp, timestamp].filter(x => x !== undefined)[0]`
normalizeTimestamp(ev) ==
  LET defined == SelectSeq(<<ev.receivedTime, ev.timeStamp, ev.timestamp>>,
                           LAMBDA x : x # Undefined)
  IN IF defined = <<>> THEN Undefined ELSE defined[1]

\* --------------------------------------------------------- outputMiddleware
\* the `send` closure of a SEND_MIDI_MESSAGE: one call on the output, if known
\* (mutant) `send(data)`: the timestamp is not passed on
sendWithoutTimestamp(log, outs, message) ==
  IF message.device \in ToSet(outs)
  THEN Append(log, [output |-> message.device, data |-> message.data,
                    timestamp |-> Undefined, seq |-> message.seq])
  ELSE log

\* (mutant) no `outputs.has(device)` test: an unknown device gets the call
sendUnchecked(log, outs, message) ==
  Append(log, [output |-> message.device, data |-> message.data,
               timestamp |-> message.timestamp, seq |-> message.seq])

send(log, outs, message) ==
  IF message.device \in ToSet(outs)
  THEN Append(log, [output |-> message.device, data |-> message.data,
                    timestamp |-> message.timestamp, seq |-> message.seq])
  ELSE log

\* (mutant) `if (midiAccess) send()`: the pending promise counts as ready
accessReadyTruthy(m) == m # "undefined"

\* `midiAccess && !midiAccess.then`
accessReady(m) == m = "access"


\* ---------------------------------------------------- promise reactions
NoMessage == [device |-> "none", data |-> <<>>, timestamp |-> 0, seq |-> 0]
BootstrapJob == [kind |-> "bootstrap", message |-> NoMessage]
SendDeviceListJob == [kind |-> "sendDeviceList", message |-> NoMessage]
SendJob(message) == [kind |-> "send", message |-> message]

\* ------------------------------------------------------------ one dispatch
\* store.dispatch(action) through inputMiddleware, outputMiddleware and the
\* reducer.  `sameRef`: the payload is the array the state already holds.
\* `jobs`: the microtask queue the dispatch starts from.
Dispatch(action, sameRef, origin, jobs) ==
  LET prevState == state
      nextState == reducer(state, action)
      \* outputMiddleware, after next(action)
      isSend == hasOutput /\ action.type = SEND_MIDI_MESSAGE
      sendNow == isSend /\ accessReady(midiAccess)
      defer == isSend /\ ~accessReady(midiAccess)
      issue == defer /\ ~alreadyRequested(midiAccess)
      access1 == IF issue THEN "promise" ELSE midiAccess
      request1 == IF issue THEN "pending" ELSE request
      \* inputMiddleware, after next(action)
      devChanged == devicesChanged(action, sameRef)
      lisChanged == listeningDevicesChanged(action, sameRef)
      unlisten == toUnlisten(prevState, nextState, lisChanged)
      listenNew == toListenNew(prevState, nextState, lisChanged)
      raised == /\ hasInput
                /\ access1 # "access"
                /\ touchesInputs(nextState, devChanged, unlisten, listenNew)
      toListen == IF raised THEN <<>>
                  ELSE listenNew \o toListenAppeared(prevState, nextState, devChanged, inputs)
      mutate == hasInput /\ ~raised
      isSet == action.type = SET_LISTENING_DEVICES
  IN
  /\ state' = nextState
  /\ midiAccess' = access1
  /\ request' = request1
  /\ requestCount' = IF issue THEN requestCount + 1 ELSE requestCount
  /\ sent' = IF sendNow THEN send(sent, outputs, action.payload) ELSE sent
  /\ reactions' = IF defer /\ request1 = "pending"
                  THEN Append(reactions, SendJob(action.payload))
                  ELSE reactions
  /\ microtasks' = IF defer /\ request1 = "fulfilled"
                   THEN Append(jobs, SendJob(action.payload))
                   ELSE jobs
  /\ onmidimessage' = IF mutate
                      THEN installCallbacks(clearCallbacks(onmidimessage, unlisten, inputs),
                                            toListen, inputs)
                      ELSE onmidimessage
  /\ armed' = IF hasInput /\ isSet
              THEN (armed \cap ToSet(action.payload))
                   \cup IF midiAccess = "access"
                        THEN (ToSet(action.payload) \ ToSet(prevState.listeningDevices))
                             \cap ToSet(inputs)
                        ELSE {}
              ELSE armed
  /\ lastDispatch' =
       [action |-> action, origin |-> origin, forwards |-> 1, raised |-> raised,
        returned |-> ~raised,
        writes |-> IF mutate
                   THEN callbackWrites(unlisten, inputs) + callbackWrites(toListen, inputs)
                   ELSE 0,
        sends |-> IF sendNow THEN Len(send(sent, outputs, action.payload)) - Len(sent) ELSE 0,
        \* a SET_LISTENING_DEVICES right after another, a new list of the same ids
        repeat |-> /\ isSet /\ ~sameRef
                   /\ lastDispatch.action.type = SET_LISTENING_DEVICES
                   /\ ToSet(action.payload) = ToSet(prevState.listeningDevices)]

NoDispatchStep(jobs) ==
  /\ lastDispatch' = NoDispatch
  /\ microtasks' = jobs
  /\ UNCHANGED << state, midiAccess, request, requestCount, sent, reactions,
                  onmidimessage, armed >>

\* sendDeviceList(): the snapshot of all ports, dispatched when it differs
\* (mutant) the snapshot is not sorted
snapshotUnsorted(ins, outs) == MapDescriptor(ins \o outs)

snapshot(ins, outs) == sortBy(MapDescriptor(ins \o outs))

sendDeviceList(jobs) ==
  LET devices == snapshot(inputs, outputs)
  IN IF ~deepEqual(devices, state.devices)
     THEN Dispatch(receiveDeviceList(devices), FALSE, "sendDeviceList", jobs)
     ELSE /\ lastDispatch' = [NoDispatch EXCEPT !.origin = "sendDeviceList"]
          /\ microtasks' = jobs
          /\ UNCHANGED << state, midiAccess, request, requestCount, sent,
                          reactions, onmidimessage, armed >>

\* setup(arg): the parameter is the pattern {midiOptions, stateKey = 'midi',
\* requestMIDIAccess = defaultRequestMIDIAccess}, with no default for the
\* parameter itself, so that an undefined argument cannot be destructured
SetupArgs == {"undefined", "{}", "{midiOptions: {sysex: true}}"}

setup(arg) == IF arg = "undefined" THEN "TypeError" ELSE "middlewares"

Uncalled == [arg |-> "uncalled", result |-> "uncalled"]

Step == tick' = 1 - tick /\ UNCHANGED << factory, selection, observer >>

\* ------------------------------------------------------------ observeStore
\* the values a selection takes: undefined and three object references
Selections == {"undefined", "s1", "s2", "s3"}

\* what onChange does besides being called: nothing, or one dispatch that
\* leaves the store with the given selection
NoInner == "none"

InnerDispatches == Selections \cup {NoInner}

NotObserving ==
  [subscribed |-> FALSE, currentState |-> "undefined", calls |-> <<>>,
   inner |-> NoInner]

\* (mutant) `onChange(nextState, currentState); currentState = nextState`
seenDuringOnChangeStale(currentState, nextState) == currentState

\* `currentState = nextState` comes before `onChange(currentState, prevState)`:
\* a notification that arrives while onChange runs compares with nextState
seenDuringOnChange(currentState, nextState) == nextState

\* one run of handleChange with select(getState()) = nextState, for a closure
\* whose currentState and onChange calls so far are given
handleChange(currentState, calls, nextState) ==
  IF nextState # currentState
  THEN [currentState |-> nextState,
        calls |-> Append(calls, [next |-> nextState, prev |-> currentState]),
        called |-> TRUE]
  ELSE [currentState |-> currentState, calls |-> calls, called |-> FALSE]

\* a store notification: handleChange runs, and if its onChange dispatches,
\* the store notifies again before onChange returns
notify(obs, nextState, inner) ==
  LET outer == handleChange(obs.currentState, obs.calls, nextState)
      nested == handleChange(seenDuringOnChange(obs.currentState, nextState),
                             outer.calls, inner)
      reenters == outer.called /\ inner # NoInner
  IN [subscribed |-> TRUE,
      currentState |-> IF reenters THEN nested.currentState ELSE outer.currentState,
      calls |-> IF reenters THEN nested.calls ELSE outer.calls,
      inner |-> IF reenters THEN inner ELSE NoInner]

\* the selection the store is left with after a notification
selected(obs, nextState, inner) ==
  IF nextState # obs.currentState /\ inner # NoInner THEN inner ELSE nextState

StoreUnchanged ==
  /\ tick' = 1 - tick
  /\ UNCHANGED << created, hasInput, hasOutput, midiAccess, request, requestCount,
                  reactions, microtasks, inputs, outputs, onmidimessage,
                  onstatechange, pendingStateChanges, state, sent, sendSeq,
                  lastDispatch, armed, forged, factory >>

\* observeStore(store, select, onChange): subscribe, then handleChange once
observeStore(inner) ==
  /\ ~observer.subscribed
  /\ observer.calls = <<>>
  /\ observer' = notify(observer, selection, inner)
  /\ selection' = selected(observer, selection, inner)
  /\ StoreUnchanged

\* a dispatch on the watched store that leaves select(getState()) = nextState;
\* the store then notifies its subscribers
dispatchObserved(nextState, inner) ==
  /\ Len(observer.calls) < MaxCalls
  /\ IF observer.subscribed
     THEN /\ observer' = notify(observer, nextState, inner)
          /\ selection' = selected(observer, nextState, inner)
     ELSE /\ inner = NoInner
          /\ selection' = nextState
          /\ UNCHANGED observer
  /\ StoreUnchanged

\* the function observeStore returned is called
unsubscribe ==
  /\ observer.subscribed
  /\ observer' = [observer EXCEPT !.subscribed = FALSE, !.inner = NoInner]
  /\ UNCHANGED selection
  /\ StoreUnchanged

\* ----------------------------------------------------------------- actions
NoStore ==
  /\ created = FALSE /\ hasInput = FALSE /\ hasOutput = FALSE
  /\ midiAccess = "undefined" /\ request = "none" /\ requestCount = 0
  /\ reactions = <<>> /\ microtasks = <<>>
  /\ inputs = <<>> /\ outputs = <<>>
  /\ onmidimessage = [d \in InputIds |-> "null"]
  /\ onstatechange = FALSE /\ pendingStateChanges = 0
  /\ state = initialState
  /\ sent = <<>> /\ sendSeq = 0
  /\ lastDispatch = NoDispatch /\ tick = 0
  /\ armed = {} /\ forged = FALSE
  /\ selection = "undefined"
  /\ observer = NotObserving

\* configureStore: setup({midiOptions: {sysex: true}}) has returned the pair
Init ==
  /\ NoStore
  /\ factory = [arg |-> "{midiOptions: {sysex: true}}",
                result |-> setup("{midiOptions: {sysex: true}}")]

\* before any call of setup
InitSetup == NoStore /\ factory = Uncalled

\* the application calls setup(arg); setup() is the call with no argument
CallSetup(arg) ==
  /\ factory = Uncalled
  /\ factory' = [arg |-> arg, result |-> setup(arg)]
  /\ lastDispatch' = NoDispatch
  /\ tick' = 1 - tick
  /\ UNCHANGED << created, hasInput, hasOutput, midiAccess, request, requestCount,
                  reactions, microtasks, inputs, outputs, onmidimessage,
                  onstatechange, pendingStateChanges, state, sent, sendSeq,
                  armed, forged, selection, observer >>

\* createStore(reducer, applyMiddleware(...)): each middleware's `next =>`
\* stage runs; inputMiddleware's calls requestMIDIAccessOnce().then(bootstrap)
CreateStore(withInput, withOutput) ==
  /\ ~created
  /\ factory.result = "middlewares"
  /\ withInput \/ withOutput
  /\ created' = TRUE /\ hasInput' = withInput /\ hasOutput' = withOutput
  /\ IF withInput
     THEN /\ midiAccess' = IF alreadyRequested(midiAccess) THEN midiAccess ELSE "promise"
          /\ request' = IF alreadyRequested(midiAccess) THEN request ELSE "pending"
          /\ requestCount' = IF alreadyRequested(midiAccess) THEN requestCount
                             ELSE requestCount + 1
          /\ reactions' = Append(reactions, BootstrapJob)
     ELSE UNCHANGED << midiAccess, request, requestCount, reactions >>
  /\ lastDispatch' = NoDispatch
  /\ Step
  /\ UNCHANGED << microtasks, inputs, outputs, onmidimessage, onstatechange,
                  pendingStateChanges, state, sent, sendSeq, armed, forged >>

\* the underlying request fulfils: `midiAccess = receivedMidiAccess`, and the
\* reactions registered on the promise become jobs
Resolve ==
  /\ request = "pending" /\ microtasks = <<>>
  /\ request' = "fulfilled"
  /\ midiAccess' = "access"
  /\ microtasks' = reactions
  /\ reactions' = <<>>
  /\ lastDispatch' = NoDispatch
  /\ Step
  /\ UNCHANGED << created, hasInput, hasOutput, requestCount, inputs, outputs,
                  onmidimessage, onstatechange, pendingStateChanges, state, sent,
                  sendSeq, armed, forged >>

\* (mutant) a failure clears midiAccess, so that a later call asks again
RejectForgetting ==
  /\ request = "pending" /\ microtasks = <<>>
  /\ request' = "rejected"
  /\ midiAccess' = "undefined"
  /\ reactions' = <<>>
  /\ lastDispatch' = NoDispatch
  /\ Step
  /\ UNCHANGED << created, hasInput, hasOutput, requestCount, microtasks,
                  inputs, outputs, onmidimessage, onstatechange, pendingStateChanges,
                  state, sent, sendSeq, armed, forged >>

\* (mutant) the reactions have a rejection handler: they run after a failure
RejectRunningReactions ==
  /\ request = "pending" /\ microtasks = <<>>
  /\ request' = "rejected"
  /\ microtasks' = reactions
  /\ reactions' = <<>>
  /\ lastDispatch' = NoDispatch
  /\ Step
  /\ UNCHANGED << created, hasInput, hasOutput, midiAccess, requestCount,
                  inputs, outputs, onmidimessage, onstatechange, pendingStateChanges,
                  state, sent, sendSeq, armed, forged >>

\* the underlying request fails: the .then reactions have no rejection
\* handler and never run; midiAccess stays the (rejected) promise
Reject ==
  /\ request = "pending" /\ microtasks = <<>>
  /\ request' = "rejected"
  /\ reactions' = <<>>
  /\ lastDispatch' = NoDispatch
  /\ Step
  /\ UNCHANGED << created, hasInput, hasOutput, midiAccess, requestCount, microtasks,
                  inputs, outputs, onmidimessage, onstatechange, pendingStateChanges,
                  state, sent, sendSeq, armed, forged >>

\* inputMiddleware's reaction: set onstatechange, defer the first snapshot
RunBootstrap ==
  /\ microtasks # <<>> /\ Head(microtasks).kind = "bootstrap"
  /\ onstatechange' = TRUE
  /\ NoDispatchStep(Append(Tail(microtasks), SendDeviceListJob))
  /\ Step
  /\ UNCHANGED << created, hasInput, hasOutput, inputs, outputs,
                  pendingStateChanges, sendSeq, forged >>

\* the deferred first snapshot
RunSendDeviceList ==
  /\ microtasks # <<>> /\ Head(microtasks).kind = "sendDeviceList"
  /\ sendDeviceList(Tail(microtasks))
  /\ Step
  /\ UNCHANGED << created, hasInput, hasOutput, inputs, outputs, onstatechange,
                  pendingStateChanges, sendSeq, forged >>

\* a deferred send
RunDeferredSend ==
  /\ microtasks # <<>> /\ Head(microtasks).kind = "send"
  /\ sent' = send(sent, outputs, Head(microtasks).message)
  /\ microtasks' = Tail(microtasks)
  /\ lastDispatch' = NoDispatch
  /\ Step
  /\ UNCHANGED << created, hasInput, hasOutput, midiAccess, request, requestCount,
                  reactions, inputs, outputs, onmidimessage, onstatechange,
                  pendingStateChanges, state, sendSeq, armed, forged >>


\* -------------------------------------------------------------- the host
Remove(list, d) == SelectSeq(list, LAMBDA x : x # d)

Connected == ToSet(inputs) \cup ToSet(outputs)

\* a change of the port maps queues a statechange notification for the handler
Notify ==
  /\ onstatechange => pendingStateChanges < MaxPending
  /\ pendingStateChanges' = IF onstatechange THEN pendingStateChanges + 1
                            ELSE pendingStateChanges

\* a port appears.  A returning input is the port object it was (its callback
\* still set) or a new object (no callback): the host decides.
HostConnect(d, sameObject) ==
  /\ microtasks = <<>>
  /\ d \notin Connected
  /\ Notify
  /\ IF d \in InputIds
     THEN /\ inputs' = Append(inputs, d)
          /\ onmidimessage' = IF sameObject THEN onmidimessage
                              ELSE [onmidimessage EXCEPT ![d] = "null"]
          /\ UNCHANGED outputs
     ELSE /\ outputs' = Append(outputs, d)
          /\ sameObject
          /\ UNCHANGED << inputs, onmidimessage >>
  /\ lastDispatch' = NoDispatch
  /\ Step
  /\ UNCHANGED << created, hasInput, hasOutput, midiAccess, request, requestCount,
                  reactions, microtasks, onstatechange, state, sent, sendSeq,
                  armed, forged >>

\* a port disappears from the maps
HostDisconnect(d) ==
  /\ microtasks = <<>>
  /\ d \in Connected
  /\ Notify
  /\ inputs' = Remove(inputs, d)
  /\ outputs' = Remove(outputs, d)
  /\ armed' = armed \ {d}
  /\ lastDispatch' = NoDispatch
  /\ Step
  /\ UNCHANGED << created, hasInput, hasOutput, midiAccess, request, requestCount,
                  reactions, microtasks, onmidimessage, onstatechange, state, sent,
                  sendSeq, forged >>

\* the host delivers a statechange notification: onstatechange runs sendDeviceList
HostStateChange ==
  /\ microtasks = <<>>
  /\ pendingStateChanges > 0
  /\ pendingStateChanges' = pendingStateChanges - 1
  /\ sendDeviceList(microtasks)
  /\ Step
  /\ UNCHANGED << created, hasInput, hasOutput, inputs, outputs, onstatechange,
                  sendSeq, forged >>

\* the host delivers a raw message on a connected input: its onmidimessage
\* callback, if set, dispatches RECEIVE_MIDI_MESSAGE
HostMessage(d, ev) ==
  /\ microtasks = <<>>
  /\ pendingStateChanges = 0
  /\ d \in ToSet(inputs)
  /\ IF onmidimessage[d] # "null"
     THEN Dispatch(receiveMidiMessage([timestamp |-> normalizeTimestamp(ev),
                                       data |-> ev.data,
                                       device |-> onmidimessage[d]]),
                   FALSE, "onmidimessage", microtasks)
     ELSE NoDispatchStep(microtasks)
  /\ Step
  /\ UNCHANGED << created, hasInput, hasOutput, inputs, outputs, onstatechange,
                  pendingStateChanges, sendSeq, forged >>

\* ------------------------------------------------------- the application
AppSetListeningDevices(ids, sameRef) ==
  /\ created
  /\ sameRef => ids = state.listeningDevices
  /\ Dispatch(setListeningDevices(ids), sameRef, "app", microtasks)
  /\ Step
  /\ UNCHANGED << created, hasInput, hasOutput, inputs, outputs, onstatechange,
                  pendingStateChanges, sendSeq, forged >>

AppSendMidiMessage(device) ==
  /\ created
  /\ sendSeq < MaxSends
  /\ sendSeq' = sendSeq + 1
  /\ Dispatch(sendMidiMessage([device |-> device, data |-> SendData,
                               timestamp |-> SendTimestamp, seq |-> sendSeq + 1]),
              FALSE, "app", microtasks)
  /\ Step
  /\ UNCHANGED << created, hasInput, hasOutput, inputs, outputs, onstatechange,
                  pendingStateChanges, forged >>

\* the application dispatches RECEIVE_DEVICE_LIST itself
ForgedLists == { <<>>, <<Descriptor("in1")>> }

AppReceiveDeviceList(devices, sameRef) ==
  /\ created
  /\ sameRef => devices = state.devices
  /\ forged' = TRUE
  /\ Dispatch(receiveDeviceList(devices), sameRef, "app", microtasks)
  /\ Step
  /\ UNCHANGED << created, hasInput, hasOutput, inputs, outputs, onstatechange,
                  pendingStateChanges, sendSeq >>

\* any other action: a RECEIVE_MIDI_MESSAGE of the application's own, or a
\* type the duck does not define
OtherActions ==
  { receiveMidiMessage([timestamp |-> 7, data |-> <<144, 60, 127>>, device |-> "in1"]),
    [type |-> OTHER_ACTION, payload |-> <<>>] }

AppOther(action) ==
  /\ created
  /\ Dispatch(action, FALSE, "app", microtasks)
  /\ Step
  /\ UNCHANGED << created, hasInput, hasOutput, inputs, outputs, onstatechange,
                  pendingStateChanges, sendSeq, forged >>

Next ==
  \/ \E i, o \in BOOLEAN : CreateStore(i, o)
  \/ Resolve
  \/ Reject
  \/ RunBootstrap
  \/ RunSendDeviceList
  \/ RunDeferredSend
  \/ \E d \in DeviceIds, same \in BOOLEAN : HostConnect(d, same)
  \/ \E d \in DeviceIds : HostDisconnect(d)
  \/ HostStateChange
  \/ \E d \in InputIds, ev \in RawEvents : HostMessage(d, ev)
  \/ \E ids \in ListenPayloads, same \in BOOLEAN : AppSetListeningDevices(ids, same)
  \/ \E d \in OutputIds : AppSendMidiMessage(d)
  \/ \E l \in ForgedLists, same \in BOOLEAN : AppReceiveDeviceList(l, same)
  \/ \E a \in OtherActions : AppOther(a)

Spec == Init /\ [][Next]_vars


\* The input side: listening, raw messages and the device list, with every
\* port but out2, and no SEND_MIDI_MESSAGE.
NextIn ==
  \/ CreateStore(TRUE, TRUE)
  \/ Resolve
  \/ Reject
  \/ RunBootstrap
  \/ RunSendDeviceList
  \/ \E d \in InputIds \cup {"out1"}, same \in BOOLEAN : HostConnect(d, same)
  \/ \E d \in DeviceIds : HostDisconnect(d)
  \/ HostStateChange
  \/ \E d \in InputIds, ev \in RawEvents : HostMessage(d, ev)
  \/ \E ids \in ListenPayloads, same \in BOOLEAN : AppSetListeningDevices(ids, same)
  \/ \E l \in ForgedLists, same \in BOOLEAN : AppReceiveDeviceList(l, same)
  \/ \E a \in OtherActions : AppOther(a)

SpecIn == Init /\ [][NextIn]_vars

\* The output side: every action kind of the application, with the output
\* ports only, two listening payloads, and either chain (with or without
\* inputMiddleware).
NextOut ==
  \/ \E i \in BOOLEAN : CreateStore(i, TRUE)
  \/ Resolve
  \/ Reject
  \/ RunBootstrap
  \/ RunSendDeviceList
  \/ RunDeferredSend
  \/ \E d \in OutputIds : HostConnect(d, TRUE)
  \/ \E d \in DeviceIds : HostDisconnect(d)
  \/ HostStateChange
  \/ \E ids \in {<<>>, <<"in1">>} : AppSetListeningDevices(ids, FALSE)
  \/ \E d \in OutputIds : AppSendMidiMessage(d)
  \/ \E l \in ForgedLists, same \in BOOLEAN : AppReceiveDeviceList(l, same)
  \/ \E a \in OtherActions : AppOther(a)

SpecOut == Init /\ [][NextOut]_vars

\* Both sides on one input and one output port: the whole chain, either
\* outcome of the request, raw messages and sends.
NextPair ==
  \/ CreateStore(TRUE, TRUE)
  \/ Resolve
  \/ Reject
  \/ RunBootstrap
  \/ RunSendDeviceList
  \/ RunDeferredSend
  \/ \E d \in {"in1", "out1"} : HostConnect(d, TRUE)
  \/ \E d \in DeviceIds : HostDisconnect(d)
  \/ HostStateChange
  \/ \E ev \in RawEvents : HostMessage("in1", ev)
  \/ \E ids \in {<<>>, <<"in1">>} : AppSetListeningDevices(ids, FALSE)
  \/ AppSendMidiMessage("out1")
  \/ \E l \in ForgedLists : AppReceiveDeviceList(l, FALSE)
  \/ \E a \in OtherActions : AppOther(a)

SpecPair == Init /\ [][NextPair]_vars

\* The same, from the call of setup on.
NextSetup ==
  \/ \E arg \in SetupArgs : CallSetup(arg)
  \/ NextPair

SpecSetup == InitSetup /\ [][NextSetup]_vars

\* A store watched with observeStore.
NextObserve ==
  \/ \E inner \in InnerDispatches : observeStore(inner)
  \/ \E nextState \in Selections, inner \in InnerDispatches :
       dispatchObserved(nextState, inner)
  \/ unsubscribe

SpecObserve == Init /\ [][NextObserve]_vars


\* ================================================================ claims

\* C1: the reducer is last-write-wins: starting from {devices: [],
\* listeningDevices: []}, a RECEIVE_DEVICE_LIST replaces `devices` by its
\* payload and leaves `listeningDevices`, a SET_LISTENING_DEVICES replaces
\* `listeningDevices` by its payload and leaves `devices`, and every other
\* action (RECEIVE_MIDI_MESSAGE, SEND_MIDI_MESSAGE, unknown types) and every
\* step without a dispatch leaves both fields as they are.
C1_Step ==
  LET a == lastDispatch'.action
  IN /\ a.type = RECEIVE_DEVICE_LIST =>
          /\ state'.devices = a.payload
          /\ state'.listeningDevices = state.listeningDevices
     /\ a.type = SET_LISTENING_DEVICES =>
          /\ state'.listeningDevices = a.payload
          /\ state'.devices = state.devices
     /\ a.type \notin {RECEIVE_DEVICE_LIST, SET_LISTENING_DEVICES} => state' = state

C1_LastWriteWins == (state = initialState) /\ [][C1_Step]_vars

\* C1 witness: a SEND_MIDI_MESSAGE has just gone through the reducer while
\* both fields hold earlier payloads.
C1_Witness ==
  /\ lastDispatch.action.type = SEND_MIDI_MESSAGE
  /\ state.devices # <<>>
  /\ state.listeningDevices # <<>>


\* C2: a raw message produces a RECEIVE_MIDI_MESSAGE for device d only while
\* d is in the state's listeningDevices (the claim as stated; the code
\* leaves the callback on a port that was unlistened while disconnected).
C2_OnlyWhileListening ==
  (/\ lastDispatch.action.type = RECEIVE_MIDI_MESSAGE
   /\ lastDispatch.origin = "onmidimessage")
  => lastDispatch.action.payload.device \in ToSet(state.listeningDevices)


\* C3: once a SET_LISTENING_DEVICES dispatched with the handle resolved has
\* newly added d, a known input, to the listening set, then for as long as d
\* stays listened to and connected every raw message the host delivers on d
\* makes exactly one dispatch, of RECEIVE_MIDI_MESSAGE with device = d and
\* the data of the raw event, within the delivery of that message (hence in
\* the order of delivery).
C3_Step ==
  \A d \in InputIds, ev \in RawEvents :
    (d \in armed /\ HostMessage(d, ev)) =>
      /\ lastDispatch'.action.type = RECEIVE_MIDI_MESSAGE
      /\ lastDispatch'.action.payload.device = d
      /\ lastDispatch'.action.payload.data = ev.data
      /\ lastDispatch'.forwards = 1
      /\ ~lastDispatch'.raised

C3_ListenedMessagesDispatched == [][C3_Step]_vars

\* C3 witness: a message of a port listened to in that way has been dispatched
\* while the other input is connected and not listened to.
C3_Witness ==
  /\ lastDispatch.origin = "onmidimessage"
  /\ lastDispatch.action.payload.device \in armed
  /\ Len(inputs) = 2
  /\ Len(state.listeningDevices) = 1

\* C4: with the request resolved, once the deferred first snapshot has run
\* and every statechange notification is processed, state.devices is the
\* list of the descriptors of all connected inputs and outputs in ascending
\* id order, as long as the application dispatches no RECEIVE_DEVICE_LIST.
IsSortedById(devices) ==
  \A i \in 1..Len(devices) : \A j \in 1..Len(devices) :
    i < j => Rank(devices[i].id) < Rank(devices[j].id)

C4_Quiescent ==
  /\ hasInput
  /\ request = "fulfilled"
  /\ microtasks = <<>>
  /\ pendingStateChanges = 0
  /\ ~forged

C4_DevicesMirrorHandle ==
  C4_Quiescent =>
    /\ IsSortedById(state.devices)
    /\ Ids(state.devices) = Connected
    /\ \A i \in 1..Len(state.devices) :
         state.devices[i] = Descriptor(state.devices[i].id)

\* C4 witness: three ports mirrored after a disconnection, the inputs having
\* connected in descending id order.
C4_Witness ==
  /\ C4_Quiescent
  /\ inputs = <<"in2", "in1">>
  /\ outputs = <<"out1">>
  /\ Len(state.devices) = 3

\* C9: every dispatch through inputMiddleware forwards the action once and
\* returns it without raising (the claim as stated; the handler raises a
\* TypeError on `midiAccess.inputs` while midiAccess is still the promise).
C9_DispatchNeverRaises ==
  lastDispatch.action.type # "none" =>
    /\ lastDispatch.forwards = 1
    /\ ~lastDispatch.raised
    /\ lastDispatch.returned

\* C10: a SET_LISTENING_DEVICES that follows another and carries a new list
\* with the same set of ids assigns no onmidimessage property: none is
\* installed, replaced or cleared.
C10_Step ==
  lastDispatch'.repeat =>
    /\ onmidimessage' = onmidimessage
    /\ lastDispatch'.writes = 0
    /\ ~lastDispatch'.raised

C10_RepeatIsInert == [][C10_Step]_vars

\* C10 witness: such a repeat of a non-empty listening set whose ports are
\* connected, with the handle resolved.
C10_Witness ==
  /\ lastDispatch.repeat
  /\ midiAccess = "access"
  /\ ToSet(state.listeningDevices) = InputIds
  /\ ToSet(inputs) = InputIds


\* the send call a SEND_MIDI_MESSAGE of this model makes on output o
SendCall(o, n) ==
  [output |-> o, data |-> SendData, timestamp |-> SendTimestamp, seq |-> n]

\* C5: with the handle resolved, dispatching SEND_MIDI_MESSAGE for a known
\* output o makes, within the dispatch, exactly one send call, on o, with the
\* envelope's data and timestamp, and no call on any other output.
C5_Step ==
  \A o \in OutputIds :
    (/\ AppSendMidiMessage(o)
     /\ midiAccess = "access"
     /\ o \in ToSet(outputs))
    => /\ sent' = Append(sent, SendCall(o, sendSeq + 1))
       /\ lastDispatch'.sends = 1

C5_SendRoutedToOutput == [][C5_Step]_vars

\* C5 witness: such a send made while both outputs are connected.
C5_Witness ==
  /\ lastDispatch.action.type = SEND_MIDI_MESSAGE
  /\ lastDispatch.sends = 1
  /\ ToSet(outputs) = OutputIds
  /\ Len(sent) = 1

\* C6: a SEND_MIDI_MESSAGE whose device is not among the outputs when its
\* send runs (within the dispatch, or deferred) makes no send call; the
\* dispatch forwards the action once, raises nothing and returns.
C6_Step ==
  /\ \A o \in OutputIds :
       AppSendMidiMessage(o) =>
         /\ lastDispatch'.forwards = 1
         /\ ~lastDispatch'.raised
         /\ lastDispatch'.returned
         /\ (midiAccess = "access" /\ o \notin ToSet(outputs)) =>
              (sent' = sent /\ lastDispatch'.sends = 0)
  /\ (RunDeferredSend /\ Head(microtasks).message.device \notin ToSet(outputs)) =>
       sent' = sent

C6_UnknownDeviceDropped == [][C6_Step]_vars

\* C6 witness: a send to a disconnected output returned with no call made,
\* the handle resolved and the other output connected.
C6_Witness ==
  /\ lastDispatch.action.type = SEND_MIDI_MESSAGE
  /\ lastDispatch.returned
  /\ midiAccess = "access"
  /\ outputs # <<>>
  /\ lastDispatch.action.payload.device \notin ToSet(outputs)
  /\ sent = <<>>

\* C7: a SEND_MIDI_MESSAGE dispatched while the handle is unrequested or
\* pending makes no send call within the dispatch and is queued on the
\* request; when the request resolves every queued send becomes a job, and
\* each job makes its one call if its device is then a known output; a
\* SEND_MIDI_MESSAGE dispatched with the handle resolved makes its call
\* within the dispatch and queues nothing; send calls are made in no other
\* way, and no SEND_MIDI_MESSAGE is sent twice.
SeqsOf(jobs) ==
  {jobs[i].message.seq : i \in {k \in 1..Len(jobs) : jobs[k].kind = "send"}}

C7_Step ==
  /\ \A o \in OutputIds :
       AppSendMidiMessage(o) =>
         IF midiAccess = "access"
         THEN /\ sent' = IF o \in ToSet(outputs)
                         THEN Append(sent, SendCall(o, sendSeq + 1)) ELSE sent
              /\ reactions' = reactions /\ microtasks' = microtasks
         ELSE /\ sent' = sent
              /\ request' = "pending" =>
                   reactions' = Append(reactions,
                                       SendJob([device |-> o, data |-> SendData,
                                                timestamp |-> SendTimestamp,
                                                seq |-> sendSeq + 1]))
  /\ Resolve => microtasks' = reactions
  /\ RunDeferredSend =>
       LET m == Head(microtasks).message
       IN sent' = IF m.device \in ToSet(outputs)
                  THEN Append(sent, SendCall(m.device, m.seq)) ELSE sent
  /\ sent' # sent =>
       \/ RunDeferredSend
       \/ \E o \in OutputIds : AppSendMidiMessage(o) /\ midiAccess = "access"
  /\ SeqsOf(microtasks) \ SeqsOf(microtasks') # {} => RunDeferredSend
  /\ SeqsOf(reactions) \ SeqsOf(reactions') # {} => (Resolve \/ Reject)

C7_NoDuplicate ==
  \A i \in 1..Len(sent) : \A j \in 1..Len(sent) : i # j => sent[i].seq # sent[j].seq

C7_DeferredSentOnce ==
  /\ [](C7_NoDuplicate /\ (microtasks # <<>> => request = "fulfilled"))
  /\ [][C7_Step]_vars

\* C7 witness: without inputMiddleware the first send issued the request, a
\* second was queued behind it, and both were sent after it resolved.
C7_Witness ==
  /\ ~hasInput
  /\ requestCount = 1
  /\ request = "fulfilled"
  /\ microtasks = <<>>
  /\ Len(sent) = 2
  /\ lastDispatch = NoDispatch

\* C8: however many requestMIDIAccessOnce() calls are made before the
\* request settles (inputMiddleware's construction, deferred sends), the
\* underlying requestMIDIAccess is invoked exactly once, and every caller's
\* reaction runs with the one resolved handle.
C8_OneRequest ==
  /\ requestCount = IF midiAccess = "undefined" THEN 0 ELSE 1
  /\ request = "pending" => (midiAccess = "promise" /\ reactions # <<>>)
  /\ microtasks # <<>> => (midiAccess = "access" /\ request = "fulfilled")

\* C8 witness: three callers wait on the one pending request.
C8_Witness ==
  /\ request = "pending"
  /\ hasInput
  /\ Len(reactions) = 3
  /\ requestCount = 1

\* C11: an input port has a message callback only if its id is in
\* state.devices (the claim as stated; the listening diff installs the
\* callback whatever state.devices holds, and a callback stays on a port
\* that has left the device list).
C11_CallbackOnlyIfInDevices ==
  \A d \in InputIds : onmidimessage[d] # "null" => d \in Ids(state.devices)

\* C13: once the underlying request has failed, the next
\* requestMIDIAccessOnce() call (here from a SEND_MIDI_MESSAGE dispatch)
\* invokes the underlying requestMIDIAccess again (the claim as stated; the
\* rejected promise stays in midiAccess and is returned to the caller).
C13_Step ==
  \A o \in OutputIds :
    (request = "rejected" /\ AppSendMidiMessage(o)) =>
      (requestCount' = requestCount + 1 /\ request' = "pending")

C13_FreshRequestAfterFailure == [][C13_Step]_vars

\* C16: one factory instance invokes the underlying requestMIDIAccess at most
\* once; midiAccess only moves undefined -> promise -> access and never
\* back; after a failure it stays the rejected promise and the request stays
\* failed, whatever is dispatched afterwards.
C16_Step ==
  /\ midiAccess' # midiAccess =>
       \/ midiAccess = "undefined" /\ midiAccess' = "promise"
       \/ midiAccess = "promise" /\ midiAccess' = "access"
  /\ requestCount' >= requestCount
  /\ request = "rejected" =>
       (request' = "rejected" /\ midiAccess' = "promise" /\ requestCount' = requestCount)

C16_AtMostOneRequest ==
  /\ [](requestCount <= 1 /\ (request = "rejected" => midiAccess = "promise"))
  /\ [][C16_Step]_vars

\* C16 witness: a SEND_MIDI_MESSAGE dispatched after the failure has waited
\* on the same failed request.
C16_Witness ==
  /\ request = "rejected"
  /\ lastDispatch.action.type = SEND_MIDI_MESSAGE
  /\ requestCount = 1
  /\ hasInput

\* C14: with the handle resolved, whenever a dispatch changes state.devices
\* so that an id d appears that the previous list did not have, and d is in
\* the listening set and a known input, that dispatch assigns d's message
\* callback, which then delivers d's messages as device d.
C14_Step ==
  \A d \in InputIds :
    (/\ midiAccess = "access"
     /\ d \in Ids(state'.devices) \ Ids(state.devices)
     /\ d \in ToSet(state'.listeningDevices)
     /\ d \in ToSet(inputs))
    => /\ onmidimessage'[d] = d
       /\ lastDispatch'.writes >= 1
       /\ ~lastDispatch'.raised

C14_AppearedDeviceListened == [][C14_Step]_vars

\* C14 witness: the snapshot taken after in2 connected, with in1 already in
\* the list and in2 listened to, has installed in2's callback.
C14_Witness ==
  /\ lastDispatch.origin = "sendDeviceList"
  /\ lastDispatch.writes = 1
  /\ state.listeningDevices = <<"in2">>
  /\ Ids(state.devices) = InputIds
  /\ inputs = <<"in1", "in2">>
  /\ onmidimessage["in2"] = "in2"

\* C19: the timestamp of a RECEIVE_MIDI_MESSAGE dispatched for a raw event is
\* the event's receivedTime if it has one, else its timeStamp if it has one,
\* else its timestamp.
FirstDefinedTime(ev) ==
  IF ev.receivedTime # Undefined THEN ev.receivedTime
  ELSE IF ev.timeStamp # Undefined THEN ev.timeStamp
  ELSE ev.timestamp

C19_Step ==
  \A d \in InputIds, ev \in RawEvents :
    (HostMessage(d, ev) /\ onmidimessage[d] # "null") =>
      /\ lastDispatch'.action.type = RECEIVE_MIDI_MESSAGE
      /\ lastDispatch'.action.payload.timestamp = FirstDefinedTime(ev)

C19_TimestampNormalized == [][C19_Step]_vars

\* C19 witness: a message of an event that has only the legacy `timestamp`
\* field (7) was dispatched with that value.
C19_Witness ==
  /\ lastDispatch.origin = "onmidimessage"
  /\ lastDispatch.action.payload.timestamp = 7

\* C15: each snapshot computation (the deferred first one, or the one run by
\* a host state-change notification) dispatches RECEIVE_DEVICE_LIST exactly
\* when the id-sorted descriptor list of all inputs and outputs differs by
\* value from state.devices, with that list as payload; otherwise nothing is
\* dispatched and the state is left as it was.
SortedDescriptors ==
  LET ids == ToSet(inputs) \cup ToSet(outputs)
      n == Cardinality(ids)
  IN CHOOSE s \in [1..n -> {Descriptor(id) : id \in ids}] :
       /\ \A i, j \in 1..n : i < j => Rank(s[i].id) < Rank(s[j].id)

C15_Step ==
  (HostStateChange \/ RunSendDeviceList) =>
    IF SortedDescriptors # state.devices
    THEN /\ lastDispatch'.action = receiveDeviceList(SortedDescriptors)
         /\ lastDispatch'.origin = "sendDeviceList"
         /\ state'.devices = SortedDescriptors
    ELSE /\ lastDispatch'.action = NoAction
         /\ state' = state

C15_SnapshotDispatchedIffDifferent == [][C15_Step]_vars

\* C15 witness: a state-change notification found the list of two connected
\* ports already in the state and dispatched nothing.
C15_Witness ==
  /\ lastDispatch.origin = "sendDeviceList"
  /\ lastDispatch.action = NoAction
  /\ Len(state.devices) = 2
  /\ state.devices = SortedDescriptors

\* C20: send calls reach the outputs in the order in which their
\* SEND_MIDI_MESSAGE actions were dispatched.
C20_SendsInDispatchOrder ==
  \A i, j \in 1..Len(sent) : i < j => sent[i].seq < sent[j].seq

\* C17: once the access request has failed it stays failed, and from then on
\* the system dispatches neither RECEIVE_DEVICE_LIST nor
\* RECEIVE_MIDI_MESSAGE, no state-change callback and no message callback is
\* registered, nothing is queued, state.devices changes only by an action of
\* the application, and no SEND_MIDI_MESSAGE results in a send call.
C17_Failed ==
  request = "rejected" =>
    /\ ~onstatechange
    /\ \A d \in InputIds : onmidimessage[d] = "null"
    /\ microtasks = <<>>
    /\ sent = <<>>
    /\ lastDispatch.origin \notin {"sendDeviceList", "onmidimessage"}
    /\ lastDispatch.sends = 0
    /\ ~forged => state.devices = initialState.devices

C17_Step ==
  request = "rejected" =>
    /\ request' = "rejected"
    /\ sent' = sent
    /\ state'.devices # state.devices =>
         /\ lastDispatch'.origin = "app"
         /\ lastDispatch'.action.type = RECEIVE_DEVICE_LIST

C17_FailureIsSilent == [](C17_Failed) /\ [][C17_Step]_vars

\* C17 witness: after the failure, with both ports connected and in1 in the
\* listening set, a SEND_MIDI_MESSAGE to out1 has been dispatched.
C17_Witness ==
  /\ request = "rejected"
  /\ Connected = {"in1", "out1"}
  /\ state.listeningDevices = <<"in1">>
  /\ lastDispatch.action.type = SEND_MIDI_MESSAGE
  /\ lastDispatch.action.payload.device = "out1"
  /\ sendSeq >= 1

\* C12: setup() called with no argument returns the middleware pair without
\* throwing.
C12_NoArgumentCallReturns ==
  factory.arg = "undefined" => factory.result = "middlewares"

\* C18: observeStore calls onChange(next, prev), at call time and at every
\* store notification, exactly when select(getState()) is not identical to
\* the last seen selection; prev is the `next` of the previous call, and
\* undefined in the first; the last seen selection is updated before
\* onChange runs, so that a dispatch made by onChange which leaves the
\* selection as it is reports nothing again.
C18_Calls ==
  LET calls == observer.calls
  IN /\ \A i \in 1..Len(calls) :
          /\ calls[i].next # calls[i].prev
          /\ calls[i].prev = IF i = 1 THEN "undefined" ELSE calls[i - 1].next
     /\ observer.currentState =
          IF calls = <<>> THEN "undefined" ELSE calls[Len(calls)].next
     /\ observer.subscribed => observer.currentState = selection

C18_Step ==
  \A nextState \in Selections, inner \in InnerDispatches :
    (\/ dispatchObserved(nextState, inner) /\ observer.subscribed
     \/ observeStore(inner) /\ nextState = selection)
    => LET first == nextState # observer.currentState
           second == first /\ inner # NoInner /\ inner # nextState
       IN observer'.calls =
            observer.calls
            \o (IF first
                THEN << [next |-> nextState, prev |-> observer.currentState] >>
                ELSE << >>)
            \o (IF second
                THEN << [next |-> inner, prev |-> nextState] >>
                ELSE << >>)

C18_OnChangeIffDistinct == [](C18_Calls) /\ [][C18_Step]_vars

\* C18 witness: the first onChange call dispatched an action that left the
\* selection as it was, and no second call was made.
C18_Witness ==
  /\ observer.subscribed
  /\ observer.inner = selection
  /\ Len(observer.calls) = 1
  /\ observer.calls[1].next = selection

====
